---------------------------- MODULE Spec2Model ----------------------------
(***************************************************************************)
(* Model of the ink! contract VestingScheduler                             *)
(* (src/vesting_scheduler/lib.rs): the schedule store, the owner, the      *)
(* block timestamp of the hosting environment, and the messages            *)
(* create_vesting_schedule, claim_vested, get_vesting_schedule and         *)
(* get_vesting_schedule_readable with the pure helpers they call           *)
(* (calculate_vested_amount, timestamp_to_datetime, format_datetime, ...). *)
(*                                                                         *)
(* Numbers.  TLC's integers are 32 bits wide, a u64 millisecond timestamp  *)
(* of a real calendar date is not.  A timestamp is therefore carried as    *)
(* the record [s, ms] of its quotient and remainder by 1000: the value is  *)
(* s * 1000 + ms with 0 <= ms < 1000.  Comparison, saturating subtraction  *)
(* and the division by 1000 of the code are computed on that record.       *)
(* Balance (u128) is scaled to the range 0 .. MaxBalance; the saturating   *)
(* operations clamp at MaxBalance exactly as the code's clamp at u128::MAX.*)
(***************************************************************************)
EXTENDS Integers, Sequences, FiniteSets, TLC

VARIABLES
    owner,            \* storage field `owner`
    schedules,        \* storage field `schedules`: a partial map H160 -> VestingSchedule
    block_timestamp,  \* self.env().block_timestamp() of the hosting environment
    ret,              \* the message executed by the last step and what it returned
    claimedSum,       \* history: per beneficiary, sum of the amounts returned by
                      \* successful claims against the record now stored
    lastOkAt,         \* history: per beneficiary, <<t>> for the block timestamp of the
                      \* latest successful claim against the record now stored, else <<>>
    created,          \* history: per beneficiary, the caller and the arguments of the
                      \* create_vesting_schedule call that stored the record now held
    probe,            \* inputs of a direct evaluation of calculate_vested_amount
    vested,           \* its outputs: <<>> before the evaluation, <<v1, v2>> after
    stamp,            \* input of a direct evaluation of the calendar codec
    civil             \* its output: <<>> before the evaluation, <<result>> after

ledgerVars == <<owner, schedules, block_timestamp, ret, claimedSum, lastOkAt, created>>
calcVars == <<probe, vested>>
calVars == <<stamp, civil>>
vars == <<owner, schedules, block_timestamp, ret, claimedSum, lastOkAt, created,
          probe, vested, stamp, civil>>

---------------------------------------------------------------------------
(* Bounds *)

\* Largest Balance of the model (u128::MAX in the code, scaled down).
MaxBalance == 15

\* The block timestamps of the model are Tick(0) .. Tick(NumTicks).
NumTicks == 2

\* Milliseconds between two consecutive block timestamps of the model.
TickMs == 2

\* The calendar codec is evaluated on every day 0 .. MaxCalDay since the
\* epoch (1970-01-01 .. 1973-01-05) and on some later days.
MaxCalDay == 1100

---------------------------------------------------------------------------
(* u64 millisecond timestamps *)

\* 1972-12-30 23:59:59.996 UTC.  The instant 4 ms later is 1972-12-31
\* 00:00:00.000, the start of the last day of the first leap year after the
\* epoch.
Base == [s |-> 94607999, ms |-> 996]

\* the timestamp k milliseconds after Base
Instant(k) == [s |-> Base.s + ((Base.ms + k) \div 1000), ms |-> (Base.ms + k) % 1000]

\* the k-th block timestamp of the model
Tick(k) == Instant(k * TickMs)

\* the block timestamps, and the start and end times the owner passes
Times == { Tick(k) : k \in 0..NumTicks }

\* every millisecond from the first block timestamp to the last
Instants == { Instant(k) : k \in 0..(NumTicks * TickMs) }

\* a < b on u64
TsLt(a, b) == a.s < b.s \/ (a.s = b.s /\ a.ms < b.ms)

\* a >= b on u64
TsGe(a, b) == ~TsLt(a, b)

\* u64::saturating_sub, in milliseconds
TsSaturatingSub(a, b) ==
    IF TsLt(a, b) THEN 0 ELSE (a.s - b.s) * 1000 + (a.ms - b.ms)

---------------------------------------------------------------------------
(* Balance arithmetic *)

Balances == 0..MaxBalance

\* the bug of a wrapping multiplication in place of the saturating one
wrapping_mul(a, b) == (a * b) % (MaxBalance + 1)

\* u128::saturating_mul: the product, clamped at the type's maximum
saturating_mul(a, b) ==
    IF a = 0 \/ b = 0 THEN 0
    ELSE IF b > MaxBalance \div a THEN MaxBalance
    ELSE a * b

\* u128::saturating_div: plain division (the divisor is never 0 here)
saturating_div(a, b) == a \div b

\* u128::saturating_sub
saturating_sub(a, b) == IF a < b THEN 0 ELSE a - b

\* u128::saturating_add
saturating_add(a, b) == IF a + b > MaxBalance THEN MaxBalance ELSE a + b

---------------------------------------------------------------------------
(* Calendar codec *)

\* the bug of the Julian rule: every fourth year is a leap year
is_leap_year_julian(year) == year % 4 = 0

\* is_leap_year
is_leap_year(year) ==
    (year % 4 = 0 /\ year % 100 # 0) \/ (year % 400 = 0)

\* The `while remaining_days >= 365` loop of timestamp_to_datetime.  The loop
\* subtracts 365 or 366 from a u64; `underflow` tells that the subtraction
\* `remaining_days -= days_in_year` was reached with remaining_days <
\* days_in_year, where the loop stops being an exact computation (a panic
\* under overflow checks, a wrap-around to 2^64 - 1 without them).
RECURSIVE year_loop(_, _)
year_loop(year, remaining_days) ==
    IF remaining_days >= 365
    THEN LET days_in_year == IF is_leap_year(year) THEN 366 ELSE 365
         IN  IF remaining_days < days_in_year
             THEN [year |-> year, remaining_days |-> remaining_days, underflow |-> TRUE]
             ELSE year_loop(year + 1, remaining_days - days_in_year)
    ELSE [year |-> year, remaining_days |-> remaining_days, underflow |-> FALSE]

\* the month-length table of days_to_month_day
days_in_months(year) ==
    IF is_leap_year(year)
    THEN <<31, 29, 31, 30, 31, 30, 31, 31, 30, 31, 30, 31>>
    ELSE <<31, 28, 31, 30, 31, 30, 31, 31, 30, 31, 30, 31>>

\* the `for (i, &days)` loop of days_to_month_day, from table index i (1-based)
RECURSIVE month_loop(_, _, _)
month_loop(table, i, remaining) ==
    IF i > Len(table) THEN <<12, 31>>
    ELSE IF remaining < table[i] THEN <<i, remaining + 1>>
    ELSE month_loop(table, i + 1, saturating_sub(remaining, table[i]))

\* days_to_month_day: <<month, day>>, both 1-indexed
days_to_month_day(day_of_year, year) ==
    month_loop(days_in_months(year), 1, day_of_year)

\* timestamp_to_datetime.  ts.s is timestamp_ms / 1000.
timestamp_to_datetime(ts) ==
    LET timestamp == ts.s
        second == timestamp % 60
        minutes_total == timestamp \div 60
        minute == minutes_total % 60
        hours_total == minutes_total \div 60
        hour == hours_total % 24
        days_total == hours_total \div 24
        y == year_loop(1970, days_total)
        md == days_to_month_day(y.remaining_days, y.year)
    IN  [year |-> y.year, month |-> md[1], day |-> md[2],
         hour |-> hour, minute |-> minute, second |-> second,
         underflow |-> y.underflow]

\* The DateTime struct (lines 11-18).
DateTime(year, month, day, hour, minute, second) ==
    [year |-> year, month |-> month, day |-> day,
     hour |-> hour, minute |-> minute, second |-> second]

\* Where the year loop can end after remaining_days has wrapped to 2^64 - 1 in
\* a build without overflow checks: the loop runs on from there and leaves
\* with remaining_days < 365 and a year that has gone round u32 many times.
\* For 1972-12-31 (day 1095) it leaves with year 234075485 and 98 days.  The
\* numbers are beyond TLC's integers, so the model takes the exit from a few
\* years (one of them the year of that run, one a multiple of 10000) and a
\* few day counts below 365.
WrappedExits ==
    { [year |-> y, remaining_days |-> d] : y \in {10000, 234075485}, d \in {0, 98, 364} }

\* What timestamp_to_datetime can do on ts: the set of its outcomes.  Each is
\* res = "DateTime" with the struct returned, or res = "Trap" when the call
\* panics in the year loop (overflow checks on); `loop` is the place where the
\* year loop stopped being exact or ended.
datetime_outcomes(ts) ==
    LET timestamp == ts.s
        days_total == ((timestamp \div 60) \div 60) \div 24
        y == year_loop(1970, days_total)
        dt == timestamp_to_datetime(ts)
        returned(year, md) == DateTime(year, md[1], md[2], dt.hour, dt.minute, dt.second)
    IN  IF y.underflow
        THEN {[res |-> "Trap", days_total |-> days_total, loop |-> y,
               dt |-> DateTime(0, 0, 0, 0, 0, 0)]}
             \cup
             {[res |-> "DateTime", days_total |-> days_total, loop |-> y,
               dt |-> returned(w.year, days_to_month_day(w.remaining_days, w.year))]
                 : w \in WrappedExits}
        ELSE {[res |-> "DateTime", days_total |-> days_total, loop |-> y,
               dt |-> returned(dt.year, <<dt.month, dt.day>>)]}

\* the bug of writing the digits of write_u32 from the left
RECURSIVE write_u32_forward(_, _)
write_u32_forward(len, val) ==
    IF len = 0 THEN <<>>
    ELSE <<48 + (val % 10)>> \o write_u32_forward(len - 1, val \div 10)

\* write_u32 into a buffer of `len` bytes: from the last byte to the first,
\* buf[i] = b'0' + (val % 10), then val /= 10.  b'0' is 48.
RECURSIVE write_u32(_, _)
write_u32(len, val) ==
    IF len = 0 THEN <<>>
    ELSE Append(write_u32(len - 1, val \div 10), 48 + (val % 10))

\* write_u8: buf[0] = b'0' + val / 10, buf[1] = b'0' + val % 10
write_u8(val) == <<48 + (val \div 10), 48 + (val % 10)>>

\* format_datetime: the 19 bytes "YYYY-MM-DD HH:MM:SS".  b'-' is 45, b' ' is
\* 32, b':' is 58.
format_datetime(dt) ==
    write_u32(4, dt.year) \o <<45>> \o write_u8(dt.month) \o <<45>> \o write_u8(dt.day)
        \o <<32>>
        \o write_u8(dt.hour) \o <<58>> \o write_u8(dt.minute) \o <<58>> \o write_u8(dt.second)

---------------------------------------------------------------------------
(* Vesting ledger: pure part *)

VestingSchedule(total_amount, claimed_amount, start_time, end_time) ==
    [total_amount |-> total_amount, claimed_amount |-> claimed_amount,
     start_time |-> start_time, end_time |-> end_time]

\* the linear branch of calculate_vested_amount (lines 318-326)
linear_vested(schedule, current_time) ==
    LET elapsed == TsSaturatingSub(current_time, schedule.start_time)
        duration == TsSaturatingSub(schedule.end_time, schedule.start_time)
    IN  saturating_div(saturating_mul(schedule.total_amount, elapsed), duration)

\* calculate_vested_amount with the full-vest test `>` instead of `>=`
calculate_vested_amount_gt(schedule, current_time) ==
    IF TsLt(current_time, schedule.start_time) THEN 0
    ELSE IF TsLt(schedule.end_time, current_time) THEN schedule.total_amount
    ELSE linear_vested(schedule, current_time)

\* calculate_vested_amount without the full-vest test
calculate_vested_amount_nocap(schedule, current_time) ==
    IF TsLt(current_time, schedule.start_time) THEN 0
    ELSE linear_vested(schedule, current_time)

\* calculate_vested_amount
calculate_vested_amount(schedule, current_time) ==
    IF TsLt(current_time, schedule.start_time) THEN 0
    ELSE IF TsGe(current_time, schedule.end_time) THEN schedule.total_amount
    ELSE linear_vested(schedule, current_time)

\* the bug of taking the whole vested amount as claimable
claimable_amount_whole(schedule, current_time) ==
    calculate_vested_amount(schedule, current_time)

\* claim_vested, lines 143-144: what the caller may claim now
claimable_amount(schedule, current_time) ==
    saturating_sub(calculate_vested_amount(schedule, current_time),
                   schedule.claimed_amount)

\* the bug of not recording the claim
claimed_after_forgotten(schedule, claimable) == schedule.claimed_amount

\* claim_vested, line 151: the claimed amount written back
claimed_after(schedule, claimable) ==
    saturating_add(schedule.claimed_amount, claimable)

\* the bug of rejecting only start_time > end_time
invalid_time_range_gt(start_time, end_time) == TsLt(end_time, start_time)

\* create_vesting_schedule, line 110: start_time >= end_time
invalid_time_range(start_time, end_time) == TsGe(start_time, end_time)

---------------------------------------------------------------------------
(* The contract: storage, environment and messages *)

\* H160 identities that call the contract
Accounts == {"alice", "bob"}

\* total_amount arguments the owner passes: zero, a middle value, the maximum
Amounts == {0, 6, MaxBalance}

\* Mapping::default(): no key is present
EmptyMapping == [a \in {} |-> 0]

\* Mapping::insert(key, value)
Insert(mapping, key, value) ==
    [a \in (DOMAIN mapping) \cup {key} |-> IF a = key THEN value ELSE mapping[a]]

\* what the last step called and what came back: res is "Ok", the name of an
\* Error variant, or "Trap" when the call did not return; amount is the
\* Balance inside Ok(..) of claim_vested, 0 otherwise
Returned(op, caller, res, amount) ==
    [op |-> op, caller |-> caller, res |-> res, amount |-> amount]

NoCall == Returned("none", "none", "none", 0)

\* no create_vesting_schedule call has stored a record for the beneficiary
NoCreate == [caller |-> "none"]

\* no evaluation of the calendar codec is asked for
NoStamp == [kind |-> "none"]

NoProbe == [schedule |-> VestingSchedule(0, 0, Tick(0), Tick(1)),
            t1 |-> Tick(0), t2 |-> Tick(0)]

\* VestingScheduler::new(), called by alice as in the tests: the caller of the
\* constructor becomes the owner
Init ==
    /\ owner = "alice"
    /\ schedules = EmptyMapping
    /\ block_timestamp = Tick(0)
    /\ ret = NoCall
    /\ claimedSum = [a \in Accounts |-> 0]
    /\ lastOkAt = [a \in Accounts |-> <<>>]
    /\ created = [a \in Accounts |-> NoCreate]
    /\ probe = NoProbe
    /\ vested = <<>>
    /\ stamp = NoStamp
    /\ civil = <<>>

\* the bug of carrying the claimed amount of a replaced schedule over
create_call_keep_claimed(caller, beneficiary, total_amount, start_time, end_time) ==
    IF caller # owner
    THEN [res |-> "Unauthorized", schedules |-> schedules]
    ELSE IF invalid_time_range(start_time, end_time)
    THEN [res |-> "InvalidTimeRange", schedules |-> schedules]
    ELSE [res |-> "Ok",
          schedules |-> Insert(schedules, beneficiary,
                               VestingSchedule(total_amount,
                                               IF beneficiary \in DOMAIN schedules
                                               THEN schedules[beneficiary].claimed_amount
                                               ELSE 0,
                                               start_time, end_time))]

\* the bug of testing the time range before the caller
create_call_range_first(caller, beneficiary, total_amount, start_time, end_time) ==
    IF invalid_time_range(start_time, end_time)
    THEN [res |-> "InvalidTimeRange", schedules |-> schedules]
    ELSE IF caller # owner
    THEN [res |-> "Unauthorized", schedules |-> schedules]
    ELSE [res |-> "Ok",
          schedules |-> Insert(schedules, beneficiary,
                               VestingSchedule(total_amount, 0, start_time, end_time))]

\* What create_vesting_schedule does when `caller` calls it in the current
\* state: the Result it returns and the store it leaves.
create_call(caller, beneficiary, total_amount, start_time, end_time) ==
    IF caller # owner
    THEN [res |-> "Unauthorized", schedules |-> schedules]
    ELSE IF invalid_time_range(start_time, end_time)
    THEN [res |-> "InvalidTimeRange", schedules |-> schedules]
    ELSE [res |-> "Ok",
          schedules |-> Insert(schedules, beneficiary,
                               VestingSchedule(total_amount, 0, start_time, end_time))]

\* the message create_vesting_schedule, called by `caller`
create_vesting_schedule(caller, beneficiary, total_amount, start_time, end_time) ==
    LET out == create_call(caller, beneficiary, total_amount, start_time, end_time)
    IN  /\ schedules' = out.schedules
        /\ ret' = Returned("create_vesting_schedule", caller, out.res, 0)
        /\ IF out.res = "Ok"
           THEN /\ claimedSum' = [claimedSum EXCEPT ![beneficiary] = 0]
                /\ lastOkAt' = [lastOkAt EXCEPT ![beneficiary] = <<>>]
                /\ created' = [created EXCEPT ![beneficiary] =
                                 [caller |-> caller, total_amount |-> total_amount,
                                  start_time |-> start_time, end_time |-> end_time]]
           ELSE UNCHANGED <<claimedSum, lastOkAt, created>>
        /\ UNCHANGED <<owner, block_timestamp, probe, vested, stamp, civil>>

\* the bug of one claimed amount shared by all schedules: a claim adds what
\* it pays out to the claimed_amount of every record
claim_outcomes_shared(store, caller, current_time) ==
    IF caller \notin DOMAIN store
    THEN {[res |-> "NoVestingSchedule", amount |-> 0, schedules |-> store]}
    ELSE LET schedule == store[caller]
             claimable == claimable_amount(schedule, current_time)
             committed == [res |-> "Ok", amount |-> claimable,
                           schedules |->
                               [a \in DOMAIN store |->
                                   [store[a] EXCEPT !.claimed_amount =
                                       claimed_after(store[a], claimable)]]]
             reverted == [res |-> "Trap", amount |-> 0, schedules |-> store]
         IN  IF TsLt(current_time, schedule.start_time)
             THEN {[res |-> "VestingNotStarted", amount |-> 0, schedules |-> store]}
             ELSE IF claimable = 0
             THEN {[res |-> "NoTokensAvailable", amount |-> 0, schedules |-> store]}
             ELSE IF timestamp_to_datetime(current_time).underflow
             THEN {reverted, committed}
             ELSE {committed}

\* What claim_vested can do when `caller` calls it on the store `store` at
\* block timestamp `current_time`: the
\* set of its outcomes, each the Result returned (with the Balance inside Ok)
\* and the store left.  The store is written (line 152) before
\* timestamp_to_datetime runs (line 161).  When the year loop underflows there,
\* a build with overflow checks panics: the call traps and the environment
\* reverts the write ("Trap"); a build without them wraps remaining_days to
\* 2^64 - 1, leaves the loop some 5 * 10^16 iterations later with a
\* meaningless date, and returns Ok with the write kept.
claim_outcomes(store, caller, current_time) ==
    IF caller \notin DOMAIN store
    THEN {[res |-> "NoVestingSchedule", amount |-> 0, schedules |-> store]}
    ELSE LET schedule == store[caller]
             claimable == claimable_amount(schedule, current_time)
             updated == [schedule EXCEPT
                           !.claimed_amount = claimed_after(schedule, claimable)]
             committed == [res |-> "Ok", amount |-> claimable,
                           schedules |-> Insert(store, caller, updated)]
             reverted == [res |-> "Trap", amount |-> 0, schedules |-> store]
         IN  IF TsLt(current_time, schedule.start_time)
             THEN {[res |-> "VestingNotStarted", amount |-> 0, schedules |-> store]}
             ELSE IF claimable = 0
             THEN {[res |-> "NoTokensAvailable", amount |-> 0, schedules |-> store]}
             ELSE IF timestamp_to_datetime(current_time).underflow
             THEN {reverted, committed}
             ELSE {committed}

\* claim_vested called by `caller` in the current state, at the current block
\* timestamp (line 139)
claim_call(caller) == claim_outcomes(schedules, caller, block_timestamp)

\* the message claim_vested, called by `caller` at the current block timestamp
claim_vested(caller) ==
    \E out \in claim_call(caller) :
        /\ schedules' = out.schedules
        /\ ret' = Returned("claim_vested", caller, out.res, out.amount)
        /\ IF out.res = "Ok"
           THEN /\ claimedSum' = [claimedSum EXCEPT ![caller] = @ + out.amount]
                /\ lastOkAt' = [lastOkAt EXCEPT ![caller] = <<block_timestamp>>]
           ELSE UNCHANGED <<claimedSum, lastOkAt>>
        /\ UNCHANGED <<owner, block_timestamp, created, probe, vested, stamp, civil>>

\* a schedule no call returns
NoSchedule == VestingSchedule(0, 0, Tick(0), Tick(0))

\* What get_vesting_schedule returns for `beneficiary` in the current state:
\* res = "Some" with the stored schedule, or res = "None".
get_call(beneficiary) ==
    IF beneficiary \in DOMAIN schedules
    THEN [res |-> "Some", schedule |-> schedules[beneficiary]]
    ELSE [res |-> "None", schedule |-> NoSchedule]

\* What get_vesting_schedule_readable can do for `beneficiary` in the current
\* state: the set of its outcomes.  Each is res = "None", or res = "Some" with
\* the tuple returned (the schedule, the formatted start, the formatted end),
\* or res = "Trap" when one of the two conversions panics.
readable_call(beneficiary) ==
    IF beneficiary \notin DOMAIN schedules
    THEN {[res |-> "None", schedule |-> NoSchedule, start |-> <<>>, end |-> <<>>]}
    ELSE LET schedule == schedules[beneficiary]
             trap == [res |-> "Trap", schedule |-> NoSchedule, start |-> <<>>, end |-> <<>>]
         IN  UNION { IF start_dt.res = "Trap" THEN {trap}
                     ELSE { IF end_dt.res = "Trap" THEN trap
                            ELSE [res |-> "Some", schedule |-> schedule,
                                  start |-> format_datetime(start_dt.dt),
                                  end |-> format_datetime(end_dt.dt)]
                              : end_dt \in datetime_outcomes(schedule.end_time) }
                       : start_dt \in datetime_outcomes(schedule.start_time) }

\* the message get_vesting_schedule; it reads nothing of its caller
get_vesting_schedule(beneficiary) ==
    /\ ret' = Returned("get_vesting_schedule", "any", get_call(beneficiary).res, 0)
    /\ UNCHANGED <<owner, schedules, block_timestamp, claimedSum, lastOkAt, created,
                   probe, vested, stamp, civil>>

\* the message get_vesting_schedule_readable; it reads nothing of its caller
get_vesting_schedule_readable(beneficiary) ==
    \E out \in readable_call(beneficiary) :
        /\ ret' = Returned("get_vesting_schedule_readable", "any", out.res, 0)
        /\ UNCHANGED <<owner, schedules, block_timestamp, claimedSum, lastOkAt, created,
                       probe, vested, stamp, civil>>

\* the hosting environment moves the block timestamp on: the timestamp of a
\* block is later than that of the block before it
set_block_timestamp(t) ==
    /\ TsLt(block_timestamp, t)
    /\ block_timestamp' = t
    /\ ret' = NoCall
    /\ UNCHANGED <<owner, schedules, claimedSum, lastOkAt, created, probe, vested, stamp, civil>>

\* The two views take &self: they write nothing, so the stores the contract
\* reaches are those of the writing messages and the clock.  The views are
\* run under SpecView, on every store of the writing messages' making.
Next ==
    \/ \E caller \in Accounts, beneficiary \in Accounts, total_amount \in Amounts,
          start_time \in Times, end_time \in Times :
          create_vesting_schedule(caller, beneficiary, total_amount, start_time, end_time)
    \/ \E caller \in Accounts : claim_vested(caller)
    \/ \E t \in Times : set_block_timestamp(t)

Spec == Init /\ [][Next]_vars

---------------------------------------------------------------------------
(* calculate_vested_amount on its own: every Balance, every time range with   *)
(* start_time < end_time among the instants, every instant                   *)

Epoch == [s |-> 0, ms |-> 0]

\* 2033-05-18 03:33:20.999 UTC, far past every end_time of the model
FarFuture == [s |-> 2000000000, ms |-> 999]

CalcTimes == Instants \cup {Epoch, FarFuture}

CalcInit ==
    /\ owner = "alice"
    /\ schedules = EmptyMapping
    /\ block_timestamp = Tick(0)
    /\ ret = NoCall
    /\ claimedSum = [a \in Accounts |-> 0]
    /\ lastOkAt = [a \in Accounts |-> <<>>]
    /\ created = [a \in Accounts |-> NoCreate]
    /\ stamp = NoStamp
    /\ civil = <<>>
    /\ \E total_amount \in Balances, start_time \in Instants, end_time \in Instants,
          t1 \in CalcTimes, t2 \in CalcTimes :
          /\ TsLt(start_time, end_time)
          /\ probe = [schedule |-> VestingSchedule(total_amount, 0, start_time, end_time),
                      t1 |-> t1, t2 |-> t2]
    /\ vested = <<>>

\* evaluate calculate_vested_amount at the two instants of the probe
Calc ==
    /\ vested = <<>>
    /\ vested' = <<calculate_vested_amount(probe.schedule, probe.t1),
                   calculate_vested_amount(probe.schedule, probe.t2)>>
    /\ UNCHANGED <<ledgerVars, probe, stamp, civil>>

CalcNext == Calc

SpecCalc == CalcInit /\ [][CalcNext]_vars

---------------------------------------------------------------------------
(* The calendar codec on its own: timestamp_to_datetime and format_datetime  *)
(* on timestamps, days_to_month_day on (day of year, year) pairs             *)

\* days since the epoch: 2000-02-28, 2000-02-29, 2000-03-01, 2000-12-30,
\* 2000-12-31, 2001-01-01, 2024-02-29, 2024-03-01, 2024-10-21, 2025-01-20,
\* 2024-12-31, 2025-01-01
LaterDays == {11015, 11016, 11017, 11321, 11322, 11323,
              19782, 19783, 20017, 20108, 20088, 20089}

CalDays == (0..MaxCalDay) \cup LaterDays

\* seconds into the day: 00:00:00, 12:00:00, 23:59:59
CalSeconds == {0, 43200, 86399}

\* the timestamps converted: the milliseconds below a full second are the
\* least and the most possible
CalStamps ==
    { [s |-> d * 86400 + sec, ms |-> ms] : d \in CalDays, sec \in CalSeconds, ms \in {0, 999} }

\* years handed to days_to_month_day: leap and common years, century years
\* divisible by 400 and not
CalYears == {1900, 1970, 1972, 1973, 2000, 2023, 2024, 2100}

CalInit ==
    /\ owner = "alice"
    /\ schedules = EmptyMapping
    /\ block_timestamp = Tick(0)
    /\ ret = NoCall
    /\ claimedSum = [a \in Accounts |-> 0]
    /\ lastOkAt = [a \in Accounts |-> <<>>]
    /\ created = [a \in Accounts |-> NoCreate]
    /\ probe = NoProbe
    /\ vested = <<>>
    /\ civil = <<>>
    /\ \/ \E ts \in CalStamps :
              stamp = [kind |-> "timestamp", ts |-> ts, year |-> 1970, day_of_year |-> 0]
       \/ \E year \in CalYears, day_of_year \in 0..365 :
              stamp = [kind |-> "day", ts |-> Epoch, year |-> year,
                       day_of_year |-> day_of_year]

\* evaluate timestamp_to_datetime on the timestamp, then format_datetime on
\* the DateTime it returned
Convert ==
    /\ stamp.kind = "timestamp"
    /\ civil = <<>>
    /\ \E out \in datetime_outcomes(stamp.ts) :
          civil' = << [res |-> out.res, days_total |-> out.days_total, loop |-> out.loop,
                       dt |-> out.dt,
                       text |-> IF out.res = "DateTime"
                                THEN format_datetime(out.dt) ELSE <<>>] >>
    /\ UNCHANGED <<ledgerVars, calcVars, stamp>>

\* evaluate days_to_month_day on the (day of year, year) pair
MonthDay ==
    /\ stamp.kind = "day"
    /\ civil = <<>>
    /\ LET md == days_to_month_day(stamp.day_of_year, stamp.year)
       IN  civil' = << [res |-> "MonthDay", days_total |-> 0,
                        loop |-> [year |-> stamp.year,
                                  remaining_days |-> stamp.day_of_year,
                                  underflow |-> FALSE],
                        dt |-> DateTime(stamp.year, md[1], md[2], 0, 0, 0),
                        text |-> <<>>] >>
    /\ UNCHANGED <<ledgerVars, calcVars, stamp>>

CalNext == Convert \/ MonthDay

SpecCal == CalInit /\ [][CalNext]_vars

---------------------------------------------------------------------------
(* The two views on their own: every store of at most one schedule per      *)
(* account that the owner's create_vesting_schedule calls can leave          *)

\* start and end times the owner passes: the block timestamps,
\* 2024-10-21 12:00:00 and 2025-01-20 12:00:00 (the two times of
\* test_readable_schedule_view) and 2024-12-31 00:00:00
ViewTimes ==
    Times \cup {[s |-> 1729512000, ms |-> 0], [s |-> 1737374400, ms |-> 0],
                [s |-> 1735603200, ms |-> 0]}

\* the records create_vesting_schedule stores
ViewSchedules ==
    { VestingSchedule(total_amount, 0, range[1], range[2]) :
        total_amount \in Amounts,
        range \in { r \in ViewTimes \X ViewTimes : TsLt(r[1], r[2]) } }

ViewInit ==
    /\ owner = "alice"
    /\ block_timestamp = Tick(0)
    /\ ret = NoCall
    /\ claimedSum = [a \in Accounts |-> 0]
    /\ lastOkAt = [a \in Accounts |-> <<>>]
    /\ probe = NoProbe
    /\ vested = <<>>
    /\ stamp = NoStamp
    /\ civil = <<>>
    /\ \E held \in SUBSET Accounts : schedules \in [held -> ViewSchedules]
    /\ created = [a \in Accounts |->
                    IF a \in DOMAIN schedules
                    THEN [caller |-> owner, total_amount |-> schedules[a].total_amount,
                          start_time |-> schedules[a].start_time,
                          end_time |-> schedules[a].end_time]
                    ELSE NoCreate]

ViewNext ==
    \/ \E beneficiary \in Accounts : get_vesting_schedule(beneficiary)
    \/ \E beneficiary \in Accounts : get_vesting_schedule_readable(beneficiary)

SpecView == ViewInit /\ [][ViewNext]_vars

---------------------------------------------------------------------------
(* Properties of calculate_vested_amount, checked under SpecCalc *)

\* C1: for start_time <= now < end_time, calculate_vested_amount returns
\* floor(total_amount * (now - start_time) / (end_time - start_time)) computed
\* in unbounded integers, also when the product exceeds the Balance range.
C1_ExactLinear ==
    (/\ vested # <<>>
     /\ TsGe(probe.t1, probe.schedule.start_time)
     /\ TsLt(probe.t1, probe.schedule.end_time))
    => vested[1] =
         (probe.schedule.total_amount
            * TsSaturatingSub(probe.t1, probe.schedule.start_time))
         \div TsSaturatingSub(probe.schedule.end_time, probe.schedule.start_time)

\* C2: calculate_vested_amount is total_amount at every t >= end_time, however
\* far past it, and 0 at every t <= start_time, t = start_time included.
C2_Endpoints ==
    vested # <<>> =>
        \A i \in {1, 2} :
            LET t == IF i = 1 THEN probe.t1 ELSE probe.t2
            IN  /\ TsGe(t, probe.schedule.end_time)
                     => vested[i] = probe.schedule.total_amount
                /\ TsGe(probe.schedule.start_time, t) => vested[i] = 0

\* C2 witness: evaluated at start_time itself and far past end_time, for the
\* largest balance
C2_Witness ==
    /\ vested # <<>>
    /\ probe.schedule.total_amount = MaxBalance
    /\ probe.t1 = probe.schedule.start_time
    /\ vested[1] = 0
    /\ probe.t2 = FarFuture
    /\ vested[2] = MaxBalance

\* C3: for t1 <= t2, calculate_vested_amount at t1 is at most the one at t2,
\* and no result exceeds total_amount.
C3_Monotone ==
    vested # <<>> =>
        /\ TsGe(probe.t2, probe.t1) => vested[1] <= vested[2]
        /\ vested[1] <= probe.schedule.total_amount
        /\ vested[2] <= probe.schedule.total_amount

\* C3 witness: the step from end_time - 1 to end_time, with a product
\* total_amount * elapsed above the Balance maximum at end_time - 1
C3_Witness ==
    /\ vested # <<>>
    /\ probe.t1 \in Instants
    /\ probe.t2 = probe.schedule.end_time
    /\ TsSaturatingSub(probe.t2, probe.t1) = 1
    /\ probe.schedule.total_amount
         * TsSaturatingSub(probe.t1, probe.schedule.start_time) > MaxBalance
    /\ vested[1] < vested[2]

---------------------------------------------------------------------------
(* Properties of the contract, checked under Spec *)

\* C4: every stored schedule has claimed_amount <= total_amount.
C4_ClaimedAtMostTotal ==
    \A b \in DOMAIN schedules :
        schedules[b].claimed_amount <= schedules[b].total_amount

\* C4 witness: a claim has just released the whole of a non-zero schedule
C4_Witness ==
    /\ ret.op = "claim_vested"
    /\ ret.res = "Ok"
    /\ schedules[ret.caller].total_amount > 0
    /\ schedules[ret.caller].claimed_amount = schedules[ret.caller].total_amount

\* C5: for every stored schedule the amounts returned by the successful claims
\* against it sum to its claimed_amount, which is calculate_vested_amount at
\* the timestamp of the latest successful claim (0 when there was none); and a
\* successful claim returns vested(now) minus the claimed_amount before it.
C5_ClaimsSumToVested ==
    \A b \in DOMAIN schedules :
        /\ claimedSum[b] = schedules[b].claimed_amount
        /\ lastOkAt[b] = <<>> => schedules[b].claimed_amount = 0
        /\ lastOkAt[b] # <<>> =>
              schedules[b].claimed_amount =
                  calculate_vested_amount(schedules[b], lastOkAt[b][1])
        /\ (ret.op = "claim_vested" /\ ret.res = "Ok" /\ ret.caller = b) =>
              /\ lastOkAt[b] = <<block_timestamp>>
              /\ ret.amount > 0
              \* claimedSum[b] - ret.amount is what had been claimed before the call
              /\ ret.amount =
                    calculate_vested_amount(schedules[b], block_timestamp)
                        - (claimedSum[b] - ret.amount)

\* C5 witness: half of the total was claimed at the exact midpoint, and the
\* claim just made, at or after end_time, returned the remaining half
C5_Witness ==
    /\ ret.op = "claim_vested"
    /\ ret.res = "Ok"
    /\ TsGe(block_timestamp, schedules[ret.caller].end_time)
    /\ ret.amount * 2 = schedules[ret.caller].total_amount
    /\ claimedSum[ret.caller] = schedules[ret.caller].total_amount
    /\ ret.amount < claimedSum[ret.caller]

\* C6: a claim_vested by a beneficiary whose latest successful claim was made
\* at this same block timestamp, with no create_vesting_schedule for that
\* beneficiary since, returns Err(NoTokensAvailable) and leaves the store
\* unchanged.
C6_SecondClaimSameInstant ==
    \A c \in Accounts :
        lastOkAt[c] = <<block_timestamp>> =>
            \A out \in claim_call(c) :
                /\ out.res = "NoTokensAvailable"
                /\ out.schedules = schedules

\* C6 witness: a claim has just been refused at the instant of the caller's
\* latest successful claim, before the schedule is fully vested
C6_Witness ==
    /\ ret.op = "claim_vested"
    /\ ret.res = "NoTokensAvailable"
    /\ lastOkAt[ret.caller] = <<block_timestamp>>
    /\ schedules[ret.caller].claimed_amount < schedules[ret.caller].total_amount

\* C7: claim_vested returns Err(NoVestingSchedule) when the caller has no
\* schedule, otherwise Err(VestingNotStarted) exactly when now < start_time,
\* otherwise Err(NoTokensAvailable) exactly when vested(now) - claimed_amount
\* (saturating) is 0, otherwise Ok(claimable) with claimable > 0.
C7_ErrorPrecedence ==
    \A c \in Accounts :
        \A out \in claim_call(c) :
            IF c \notin DOMAIN schedules
            THEN out.res = "NoVestingSchedule"
            ELSE IF TsLt(block_timestamp, schedules[c].start_time)
            THEN out.res = "VestingNotStarted"
            ELSE IF saturating_sub(
                        calculate_vested_amount(schedules[c], block_timestamp),
                        schedules[c].claimed_amount) = 0
            THEN out.res = "NoTokensAvailable"
            ELSE /\ out.res = "Ok"
                 /\ out.amount > 0
                 /\ out.amount =
                       calculate_vested_amount(schedules[c], block_timestamp)
                           - schedules[c].claimed_amount

\* C8: create_vesting_schedule by the owner with start_time >= end_time returns
\* Err(InvalidTimeRange) for every beneficiary and total_amount and leaves the
\* store unchanged.
C8_InvalidTimeRange ==
    \A b \in Accounts, total_amount \in Amounts, s \in Times, e \in Times :
        TsGe(s, e) =>
            LET out == create_call(owner, b, total_amount, s, e)
            IN  /\ out.res = "InvalidTimeRange"
                /\ out.schedules = schedules

\* C8 witness: the owner's call was rejected while a schedule with a claim
\* already made against it is stored
C8_Witness ==
    /\ ret.op = "create_vesting_schedule"
    /\ ret.res = "InvalidTimeRange"
    /\ \E b \in DOMAIN schedules : schedules[b].claimed_amount > 0

\* C9: a beneficiary's stored claimed_amount never decreases from one state to
\* the next.
C9_ClaimedNeverDecreases ==
    [][ \A b \in DOMAIN schedules :
            /\ b \in DOMAIN schedules'
            /\ schedules'[b].claimed_amount >= schedules[b].claimed_amount
      ]_vars

\* C10: every claim_vested call completes, returning Ok(amount) or one of
\* NoVestingSchedule, VestingNotStarted, NoTokensAvailable.
C10_ClaimReturns ==
    ret.op = "claim_vested" =>
        ret.res \in {"Ok", "NoVestingSchedule", "VestingNotStarted", "NoTokensAvailable"}

---------------------------------------------------------------------------
(* Properties of the calendar codec, checked under SpecCal *)

\* the Gregorian leap rule
GregorianLeap(Y) == (Y % 4 = 0 /\ Y % 100 # 0) \/ (Y % 400 = 0)

\* the number of days of year Y
YearLength(Y) == IF GregorianLeap(Y) THEN 366 ELSE 365

\* the number of days of the years 1970 .. Y - 1
RECURSIVE DaysBeforeYear(_)
DaysBeforeYear(Y) == IF Y <= 1970 THEN 0 ELSE DaysBeforeYear(Y - 1) + YearLength(Y - 1)

\* the result of the evaluation of timestamp_to_datetime, once it is there
Converted == civil # <<>> /\ civil[1].res # "MonthDay"

\* C11: for every timestamp the year loop of timestamp_to_datetime never
\* subtracts more days than remain, and ends with a year Y >= 1970 and a
\* remainder d such that days_total is the number of days of the years
\* 1970 .. Y - 1 plus d, with 0 <= d < the number of days of Y; the last day of
\* a leap year (d = 365) resolves to that leap year.
C11_YearLoopExact ==
    Converted =>
        LET r == civil[1]
        IN  /\ ~r.loop.underflow
            /\ r.loop.year >= 1970
            /\ r.days_total = DaysBeforeYear(r.loop.year) + r.loop.remaining_days
            /\ 0 <= r.loop.remaining_days
            /\ r.loop.remaining_days < YearLength(r.loop.year)
            /\ r.dt.year = r.loop.year

\* the number of days of month m (1 .. 12) of year Y in the Gregorian calendar
MonthLength(Y, m) ==
    IF m = 2 THEN (IF GregorianLeap(Y) THEN 29 ELSE 28)
    ELSE IF m \in {4, 6, 9, 11} THEN 30
    ELSE 31

\* the number of days of the months 1 .. m - 1 of year Y
RECURSIVE DaysBeforeMonth(_, _)
DaysBeforeMonth(Y, m) ==
    IF m <= 1 THEN 0 ELSE DaysBeforeMonth(Y, m - 1) + MonthLength(Y, m - 1)

\* <<month, day>> is the Gregorian date of the 0-based day d of year Y
IsGregorianDate(Y, d, month, day) ==
    /\ month \in 1..12
    /\ day \in 1..MonthLength(Y, month)
    /\ DaysBeforeMonth(Y, month) + (day - 1) = d

\* C12: for every year Y and every 0-based day of year d below the number of
\* days of Y, days_to_month_day(d, Y) is the 1-indexed Gregorian month and day,
\* February having 29 days exactly in the years of the leap rule: d = 59 is
\* Feb 29 and d = 60 is Mar 1 in a leap year, d = 59 is Mar 1 in a common year,
\* 2000 has a Feb 29 and 2100 has none, and the timestamp of 2024-03-01
\* 00:00:00 UTC converts to year 2024, month 3, day 1.
C12_MonthDayGregorian ==
    /\ (civil # <<>> /\ stamp.kind = "day" /\ stamp.day_of_year < YearLength(stamp.year)) =>
          LET Y == stamp.year
              d == stamp.day_of_year
              md == <<civil[1].dt.month, civil[1].dt.day>>
          IN  /\ IsGregorianDate(Y, d, md[1], md[2])
              /\ (d = 59 /\ GregorianLeap(Y)) => md = <<2, 29>>
              /\ (d = 60 /\ GregorianLeap(Y)) => md = <<3, 1>>
              /\ (d = 59 /\ ~GregorianLeap(Y)) => md = <<3, 1>>
              /\ (d = 59 /\ Y = 2000) => md = <<2, 29>>
              /\ (d = 59 /\ Y = 2100) => md = <<3, 1>>
    /\ (Converted /\ stamp.ts = [s |-> 1709251200, ms |-> 0]) =>
          /\ civil[1].res = "DateTime"
          /\ civil[1].dt.year = 2024 /\ civil[1].dt.month = 3 /\ civil[1].dt.day = 1

\* days_to_month_day has answered Feb 29 for day 59 of 2000 and Mar 1 for
\* day 59 of 2100
C12_Witness ==
    /\ civil # <<>>
    /\ stamp.kind = "day"
    /\ stamp.day_of_year = 59
    /\ \/ stamp.year = 2000 /\ civil[1].dt.month = 2 /\ civil[1].dt.day = 29
       \/ stamp.year = 2100 /\ civil[1].dt.month = 3 /\ civil[1].dt.day = 1

\* the fields of a DateTime are those of a calendar date and a time of day
FieldsInRange(dt) ==
    /\ dt.year >= 1970
    /\ dt.month \in 1..12
    /\ dt.day \in 1..MonthLength(dt.year, dt.month)
    /\ dt.hour \in 0..23
    /\ dt.minute \in 0..59
    /\ dt.second \in 0..59

\* C13: for every timestamp, timestamp_to_datetime returns a DateTime with
\* year >= 1970, month in 1..12, day in 1..(days of that month of that year),
\* hour in 0..23, minute and second in 0..59, and hour * 3600 + minute * 60 +
\* second equal to floor(timestamp_ms / 1000) mod 86400; the day of year it
\* hands to days_to_month_day is below the year's length, so the (12, 31)
\* fallback is never taken.
C13_DateTimeFields ==
    Converted =>
        LET r == civil[1]
        IN  /\ r.res = "DateTime"
            /\ FieldsInRange(r.dt)
            /\ r.dt.hour * 3600 + r.dt.minute * 60 + r.dt.second = stamp.ts.s % 86400
            /\ r.loop.remaining_days < YearLength(r.loop.year)

\* the ASCII code of the decimal digit of n at the place 10^k
DigitAt(n, k) == 48 + ((n \div (10 ^ k)) % 10)

\* the two ASCII digits of n, zero-padded
TwoDigits(n) == <<DigitAt(n, 1), DigitAt(n, 0)>>

\* C14: for every DateTime dt that timestamp_to_datetime returns,
\* format_datetime(dt) is 19 bytes of the shape "YYYY-MM-DD HH:MM:SS": '-' at
\* the offsets 4 and 7, ' ' at 10, ':' at 13 and 16, ASCII digits elsewhere;
\* the first four bytes are the decimal digits of dt.year mod 10000 and every
\* other field is its zero-padded two-digit value; 1729512000000 formats as
\* "2024-10-21 12:00:00".
C14_FormatShape ==
    (Converted /\ civil[1].res = "DateTime") =>
        LET dt == civil[1].dt
            text == civil[1].text
            y == dt.year % 10000
        IN  /\ Len(text) = 19
            /\ text[5] = 45 /\ text[8] = 45 /\ text[11] = 32
            /\ text[14] = 58 /\ text[17] = 58
            /\ \A i \in (1..19) \ {5, 8, 11, 14, 17} : text[i] \in 48..57
            /\ SubSeq(text, 1, 4) = <<DigitAt(y, 3), DigitAt(y, 2), DigitAt(y, 1), DigitAt(y, 0)>>
            /\ SubSeq(text, 6, 7) = TwoDigits(dt.month)
            /\ SubSeq(text, 9, 10) = TwoDigits(dt.day)
            /\ SubSeq(text, 12, 13) = TwoDigits(dt.hour)
            /\ SubSeq(text, 15, 16) = TwoDigits(dt.minute)
            /\ SubSeq(text, 18, 19) = TwoDigits(dt.second)
            /\ stamp.ts.s = 1729512000 =>
                 text = <<50, 48, 50, 52, 45, 49, 48, 45, 50, 49, 32,
                          49, 50, 58, 48, 48, 58, 48, 48>>

\* 1729512000000 has been converted and formatted as "2024-10-21 12:00:00"
C14_Witness ==
    /\ Converted
    /\ stamp.ts = [s |-> 1729512000, ms |-> 0]
    /\ civil[1].res = "DateTime"
    /\ civil[1].text = <<50, 48, 50, 52, 45, 49, 48, 45, 50, 49, 32,
                         49, 50, 58, 48, 48, 58, 48, 48>>

---------------------------------------------------------------------------
(* Properties of the two views, checked under SpecView *)

\* the text format_datetime makes of the date timestamp_to_datetime computes
\* for ts when its year loop is exact
ReadableText(ts) ==
    LET dt == timestamp_to_datetime(ts)
    IN  format_datetime(DateTime(dt.year, dt.month, dt.day, dt.hour, dt.minute, dt.second))

\* C15: for every beneficiary b, get_vesting_schedule_readable(b) completes,
\* whatever start_time and end_time are stored; it returns None exactly when
\* get_vesting_schedule(b) returns None, and otherwise Some of the stored
\* schedule s with the formatted conversions of s.start_time and s.end_time.
C15_ReadableView ==
    \A b \in Accounts :
        \A out \in readable_call(b) :
            /\ out.res # "Trap"
            /\ out.res = "None" <=> get_call(b).res = "None"
            /\ get_call(b).res = "Some" =>
                  /\ out.schedule = get_call(b).schedule
                  /\ out.start = ReadableText(get_call(b).schedule.start_time)
                  /\ out.end = ReadableText(get_call(b).schedule.end_time)

---------------------------------------------------------------------------
(* Properties of the contract, checked under Spec: the store *)

\* C16: in every reachable state, a create_vesting_schedule call by the owner
\* with start_time < end_time returns Ok for every total_amount, 0 included,
\* and leaves the beneficiary's record exactly (total_amount, claimed_amount
\* 0, start_time, end_time), whatever schedule the beneficiary had before and
\* whatever its claimed_amount was; the record of every other beneficiary is
\* as before.
C16_CreateOverwrites ==
    \A beneficiary \in Accounts, total_amount \in Amounts,
       start_time \in Times, end_time \in Times :
        TsLt(start_time, end_time) =>
            LET out == create_call(owner, beneficiary, total_amount, start_time, end_time)
            IN  /\ out.res = "Ok"
                /\ DOMAIN out.schedules = (DOMAIN schedules) \cup {beneficiary}
                /\ out.schedules[beneficiary] =
                       [total_amount |-> total_amount, claimed_amount |-> 0,
                        start_time |-> start_time, end_time |-> end_time]
                /\ \A other \in (DOMAIN schedules) \ {beneficiary} :
                       out.schedules[other] = schedules[other]

\* the owner's call has just stored a schedule of total_amount 0 for one
\* beneficiary, and the record of the other beneficiary, with a claimed amount
\* above 0, is still there
C16_Witness ==
    /\ ret.op = "create_vesting_schedule"
    /\ ret.res = "Ok"
    /\ \E b \in DOMAIN schedules, other \in DOMAIN schedules :
          /\ b # other
          /\ schedules[b].total_amount = 0
          /\ schedules[b].claimed_amount = 0
          /\ lastOkAt[b] = <<>>
          /\ schedules[other].claimed_amount > 0

\* C17: in every reachable state every stored schedule has start_time <
\* end_time, and its start_time and end_time are those of the latest successful
\* create_vesting_schedule call for its beneficiary (no operation since has
\* changed them); no outcome of claim_vested changes them, and no outcome of
\* create_vesting_schedule other than Ok for that beneficiary.
C17_TimeRangeKept ==
    \A b \in DOMAIN schedules :
        /\ TsLt(schedules[b].start_time, schedules[b].end_time)
        /\ schedules[b].start_time = created[b].start_time
        /\ schedules[b].end_time = created[b].end_time
        /\ \A c \in Accounts : \A out \in claim_call(c) :
              /\ b \in DOMAIN out.schedules
              /\ out.schedules[b].start_time = schedules[b].start_time
              /\ out.schedules[b].end_time = schedules[b].end_time
        /\ \A caller \in Accounts, beneficiary \in Accounts, total_amount \in Amounts,
              start_time \in Times, end_time \in Times :
              LET out == create_call(caller, beneficiary, total_amount, start_time, end_time)
              IN  (out.res # "Ok" \/ beneficiary # b) =>
                      /\ b \in DOMAIN out.schedules
                      /\ out.schedules[b].start_time = schedules[b].start_time
                      /\ out.schedules[b].end_time = schedules[b].end_time

\* both accounts hold a schedule, and one of them has been claimed from at a
\* later block timestamp and still has the times it was created with
C17_Witness ==
    /\ ret.op = "claim_vested"
    /\ ret.res = "Ok"
    /\ block_timestamp # Tick(0)
    /\ DOMAIN schedules = Accounts
    /\ schedules[ret.caller].claimed_amount > 0
    /\ schedules[ret.caller].start_time = created[ret.caller].start_time
    /\ schedules[ret.caller].end_time = created[ret.caller].end_time

\* two claims at the current block timestamp, `first` before `second`: the
\* store left and what each of the two callers got back
ClaimsInOrder(first, second) ==
    UNION { { [schedules |-> o2.schedules,
               got |-> [a \in {first, second} |->
                          IF a = first THEN <<o1.res, o1.amount>>
                          ELSE <<o2.res, o2.amount>>]]
                : o2 \in claim_outcomes(o1.schedules, second, block_timestamp) }
              : o1 \in claim_outcomes(schedules, first, block_timestamp) }

\* C18: in every reachable state, claim_vested by caller c changes at most the
\* claimed_amount of c's own record: every other beneficiary's record, c's
\* total_amount, start_time and end_time and the owner are as before, and a
\* call that does not return Ok leaves the whole store as it was; so two
\* claims by distinct beneficiaries at one block timestamp leave the same
\* store and return the same amounts in either order.
C18_ClaimsIndependent ==
    /\ owner = "alice"
    /\ \A c \in Accounts : \A out \in claim_call(c) :
          /\ DOMAIN out.schedules = DOMAIN schedules
          /\ \A b \in (DOMAIN schedules) \ {c} : out.schedules[b] = schedules[b]
          /\ c \in DOMAIN schedules =>
                out.schedules[c] =
                    [schedules[c] EXCEPT !.claimed_amount = out.schedules[c].claimed_amount]
          /\ out.res # "Ok" => out.schedules = schedules
    /\ \A c1 \in Accounts, c2 \in Accounts :
          c1 # c2 => ClaimsInOrder(c1, c2) = ClaimsInOrder(c2, c1)

\* a claim has returned Ok with an amount above 0 while the other beneficiary
\* has a schedule with something to claim at the same block timestamp
C18_Witness ==
    /\ ret.op = "claim_vested"
    /\ ret.res = "Ok"
    /\ ret.amount > 0
    /\ \E other \in (DOMAIN schedules) \ {ret.caller} :
          /\ TsGe(block_timestamp, schedules[other].start_time)
          /\ claimable_amount(schedules[other], block_timestamp) > 0

\* C19: in every reachable state, a claim_vested call by a beneficiary whose
\* schedule has claimed_amount < total_amount, at a block timestamp >=
\* end_time, returns Ok(total_amount - claimed_amount) and leaves
\* claimed_amount = total_amount; and a claim against a started schedule with
\* claimed_amount = total_amount returns NoTokensAvailable and leaves
\* claimed_amount = total_amount.
C19_FullRelease ==
    \A c \in DOMAIN schedules :
        LET s == schedules[c]
        IN  /\ (TsGe(block_timestamp, s.end_time) /\ s.claimed_amount < s.total_amount) =>
                \A out \in claim_call(c) :
                    /\ out.res = "Ok"
                    /\ out.amount = s.total_amount - s.claimed_amount
                    /\ out.schedules[c].claimed_amount = s.total_amount
            /\ (TsGe(block_timestamp, s.start_time) /\ s.claimed_amount = s.total_amount) =>
                \A out \in claim_call(c) :
                    /\ out.res = "NoTokensAvailable"
                    /\ out.schedules[c].claimed_amount = s.total_amount

\* C20: in every reachable state the owner is the caller of the constructor;
\* a create_vesting_schedule call by anyone else returns Unauthorized and
\* leaves the store as it was, also with start_time >= end_time (the caller is
\* tested before the time range); so the total_amount, start_time and end_time
\* of every stored record are the arguments of a call by the owner.
C20_OwnerOnly ==
    /\ owner = "alice"
    /\ \A caller \in Accounts \ {owner}, beneficiary \in Accounts, total_amount \in Amounts,
          start_time \in Times, end_time \in Times :
          create_call(caller, beneficiary, total_amount, start_time, end_time)
              = [res |-> "Unauthorized", schedules |-> schedules]
    /\ \A b \in DOMAIN schedules :
          /\ created[b].caller = owner
          /\ schedules[b].total_amount = created[b].total_amount
          /\ schedules[b].start_time = created[b].start_time
          /\ schedules[b].end_time = created[b].end_time

\* someone other than the owner has called create_vesting_schedule and got
\* Unauthorized, while the store holds a record the owner created
C20_Witness ==
    /\ ret.op = "create_vesting_schedule"
    /\ ret.res = "Unauthorized"
    /\ ret.caller # owner
    /\ \E b \in DOMAIN schedules : created[b].caller = owner

=============================================================================
